---------------------------- MODULE Spec2Model ----------------------------
(***************************************************************************)
(* Tag discovery and metric materialisation of aws_tags.go.                *)
(*                                                                         *)
(* Strings are sequences of atoms.  An atom is a single character or a     *)
(* word free of the separators ':' and '/', which are always atoms of      *)
(* their own, so strings.Split and strings.Contains act on atoms as they   *)
(* act on bytes.  Tag keys and service names, the strings that are         *)
(* normalised into label-safe form, are written character by character     *)
(* wherever they hold an uppercase or a disallowed character.              *)
(* A Go *string is NIL or Ref(s).                                          *)
(***************************************************************************)
EXTENDS Integers, Sequences, FiniteSets, TLC

VARIABLES
    job,            \* the job argument of get: [Type, SearchTags]
    region,         \* the region argument of get
    provider,       \* the AWS account behind the clients: [main, rest] profile numbers
    pc,             \* position of the calling goroutine
    inputparams,    \* r.GetResourcesInput.ResourceTypeFilters (get, line 122)
    pageNum,        \* pageNum of the running listing callback
    lastPage,       \* the lastPage/more flag the paginator passed with the latest page
    cont,           \* what the latest callback invocation returned
    resources,      \* the named result `resources` of get / getTagged...
    resourcePages,  \* the error of the paginated listing call (get, line 135)
    restPageNum,    \* pageNum of getTaggedApiGateway
    restLast,       \* lastPage flag of the latest REST-API page
    restCont,       \* what the latest REST-API callback invocation returned
    apiItems,       \* output.Items of getTaggedApiGateway
    errGet,         \* the error of getTaggedApiGateway (get, line 160)
    tagData,        \* the records handed to the caller / to migrateTagsToPrometheus
    retErr,         \* the error handed to the caller
    firstErr,       \* history: the first error any provider call of the job returned
    callsAfterErr,  \* history: provider page requests issued after firstErr was set
    panicked,       \* "" or the run-time panic that ended the goroutine
    output          \* the result of migrateTagsToPrometheus

vars == <<job, region, provider, pc, inputparams, pageNum, lastPage, cont, resources,
          resourcePages, restPageNum, restLast, restCont, apiItems, errGet, tagData,
          retErr, firstErr, callsAfterErr, panicked, output>>

-----------------------------------------------------------------------------
(* Pointers and errors *)

NIL == [nil |-> TRUE]

Ref(s) == [val |-> s]

NoErr == "nil"

ErrTagging == "resourcegroupstaggingapi: request failed"

ErrListing == "listing: request failed"

ErrRestApis == "apigateway: request failed"

-----------------------------------------------------------------------------
(* Bounds of the exploration *)

\* A page request may fail only while fewer than MaxFailPage pages were delivered.
MaxFailPage == 2

\* Largest batch handed directly to the materializer.
MaxBatch == 3

\* Distance, in pages, between the non-empty stretches of the main listing.
PagePeriod == 33

-----------------------------------------------------------------------------
(* strings *)

RECURSIVE SplitFrom(_, _, _, _)
SplitFrom(s, sep, cur, acc) ==
    IF s = <<>> THEN Append(acc, cur)
    ELSE IF Head(s) = sep THEN SplitFrom(Tail(s), sep, <<>>, Append(acc, cur))
    ELSE SplitFrom(Tail(s), sep, Append(cur, Head(s)), acc)

\* strings.Split(s, sep) for a one-character separator: always at least one part.
Split(s, sep) == SplitFrom(s, sep, <<>>, <<>>)

\* strings.Contains(s, sub)
Contains(s, sub) ==
    \E i \in 0..(Len(s) - Len(sub)) : SubSeq(s, i + 1, i + Len(sub)) = sub

RestApisNeedle == <<"/", "restapis">>

\* Lowercase of the uppercase letters the tag keys use.
Lower(c) ==
    CASE c = "A" -> "a"
      [] c = "B" -> "b"
      [] c = "E" -> "e"
      [] OTHER -> c

DisallowedChars == {" ", ",", "/", "\\", ".", "-", ":", "=", "@", "<", ">"}

\* Normalisation of a string into label-safe form: lowercase, '_' for a
\* disallowed character.
Normalize(text) ==
    [i \in 1..Len(text) |->
        IF text[i] \in DisallowedChars THEN "_" ELSE Lower(text[i])]

promString(text) == Normalize(text)

promStringTag(text) == Normalize(text)

\* stringInSlice(a, list): membership by value.
stringInSlice(a, list) == \E i \in 1..Len(list) : list[i] = a

-----------------------------------------------------------------------------
(* Resource Type Registry: allResourceTypesFilters of get *)

allResourceTypesFilters ==
    << [key |-> <<"alb">>, filters |-> <<"elasticloadbalancing:loadbalancer/app", "elasticloadbalancing:targetgroup">>],
       [key |-> <<"apigateway">>, filters |-> <<"apigateway">>],
       [key |-> <<"appsync">>, filters |-> <<"appsync">>],
       [key |-> <<"cf">>, filters |-> <<"cloudfront">>],
       [key |-> <<"dynamodb">>, filters |-> <<"dynamodb:table">>],
       [key |-> <<"ebs">>, filters |-> <<"ec2:volume">>],
       [key |-> <<"ec">>, filters |-> <<"elasticache:cluster">>],
       [key |-> <<"ec2">>, filters |-> <<"ec2:instance">>],
       [key |-> <<"ecs", "-", "svc">>, filters |-> <<"ecs:cluster", "ecs:service">>],
       [key |-> <<"ecs", "-", "containerinsights">>, filters |-> <<"ecs:cluster", "ecs:service">>],
       [key |-> <<"efs">>, filters |-> <<"elasticfilesystem:file-system">>],
       [key |-> <<"elb">>, filters |-> <<"elasticloadbalancing:loadbalancer">>],
       [key |-> <<"emr">>, filters |-> <<"elasticmapreduce:cluster">>],
       [key |-> <<"es">>, filters |-> <<"es:domain">>],
       [key |-> <<"firehose">>, filters |-> <<"firehose">>],
       [key |-> <<"fsx">>, filters |-> <<"fsx:file-system">>],
       [key |-> <<"kinesis">>, filters |-> <<"kinesis:stream">>],
       [key |-> <<"lambda">>, filters |-> <<"lambda:function">>],
       [key |-> <<"ngw">>, filters |-> <<"ec2:natgateway">>],
       [key |-> <<"nlb">>, filters |-> <<"elasticloadbalancing:loadbalancer/net">>],
       [key |-> <<"rds">>, filters |-> <<"rds:db">>],
       [key |-> <<"redshift">>, filters |-> <<"redshift:cluster">>],
       [key |-> <<"r53r">>, filters |-> <<"route53resolver">>],
       [key |-> <<"s3">>, filters |-> <<"s3">>],
       [key |-> <<"sfn">>, filters |-> <<"states">>],
       [key |-> <<"sns">>, filters |-> <<"sns">>],
       [key |-> <<"sqs">>, filters |-> <<"sqs">>],
       [key |-> <<"tgw">>, filters |-> <<"ec2:transit-gateway">>],
       [key |-> <<"vpn">>, filters |-> <<"ec2:vpn-connection">>],
       [key |-> <<"kafka">>, filters |-> <<"kafka:cluster">>] >>

\* resourceTypeFilters, ok := allResourceTypesFilters[job.Type]
RegistryHas(type) ==
    \E i \in 1..Len(allResourceTypesFilters) : allResourceTypesFilters[i].key = type

RegistryFilters(type) ==
    (CHOOSE e \in {allResourceTypesFilters[i] : i \in 1..Len(allResourceTypesFilters)} :
        e.key = type).filters

TypeAsg == <<"asg">>

TypeTgwa == <<"tgwa">>

TypeApiGateway == <<"apigateway">>

TypeEc2 == <<"ec2">>

\* A key the registry lacks.
TypeUnknown == <<"glue">>

JobTypes == {TypeEc2, TypeApiGateway, TypeAsg, TypeTgwa, TypeUnknown}

-----------------------------------------------------------------------------
(* What the caller and the AWS account supply *)

Regions == {<<"us-east-1">>, <<"eu-west-1">>}

TagEnvProd == [Key |-> <<"E", "n", "v">>, Value |-> <<"prod">>]

TagEnvDev == [Key |-> <<"E", "n", "v">>, Value |-> <<"dev">>]

TagTeam == [Key |-> <<"team">>, Value |-> <<"a">>]

TagDash == [Key |-> <<"a", "-", "b">>, Value |-> <<"v1">>]

TagUnder == [Key |-> <<"a", "_", "b">>, Value |-> <<"v2">>]

\* job.SearchTags
SearchTagSets == {<<>>, <<TagEnvProd>>, <<TagEnvProd, TagTeam>>}

ArnPrefix(service) == <<"arn", ":", "aws", ":", service, ":", "us-east-1", ":", "123456789012", ":">>

Ec2Arn(id) == ArnPrefix("ec2") \o <<"instance", "/", id>>

\* arn:aws:apigateway:us-east-1::/restapis/<id>...
ApiGwArn(path) == <<"arn", ":", "aws", ":", "apigateway", ":", "us-east-1", ":", ":">> \o path

AsgArn(uuid, name) ==
    ArnPrefix("autoscaling") \o <<"autoScalingGroup", ":", uuid, ":", "autoScalingGroupName", "/">> \o name

\* Pages of GetResources (ResourceTagMappingList), repeated cyclically.
GenericProfiles ==
    << \* well-formed ARNs
       << << [ResourceARN |-> Ref(Ec2Arn("i-1")), Tags |-> <<TagEnvProd>>],
             [ResourceARN |-> Ref(Ec2Arn("i-2")), Tags |-> <<TagEnvDev, TagDash>>] >>,
          << >>,
          << [ResourceARN |-> Ref(Ec2Arn("i-3")), Tags |-> <<TagTeam, TagEnvProd>>] >> >>,
       \* a mapping without ResourceARN, and one with an empty ResourceARN
       << << [ResourceARN |-> NIL, Tags |-> <<TagEnvProd>>] >>,
          << [ResourceARN |-> Ref(<<>>), Tags |-> <<TagEnvProd, TagTeam>>],
             [ResourceARN |-> Ref(Ec2Arn("i-1")), Tags |-> <<>>] >> >> >>

ApiGatewayProfiles ==
    << << << [ResourceARN |-> Ref(ApiGwArn(<<"/", "restapis", "/", "abc123">>)), Tags |-> <<TagEnvProd>>],
             [ResourceARN |-> Ref(ApiGwArn(<<"/", "restapis", "/", "abc123", "/", "stages", "/", "prod">>)),
              Tags |-> <<TagEnvProd, TagTeam>>] >>,
          << [ResourceARN |-> Ref(ApiGwArn(<<"/", "domainnames", "/", "example">>)), Tags |-> <<TagEnvProd>>],
             [ResourceARN |-> Ref(ApiGwArn(<<"/", "restapis", "/", "zzz999">>)), Tags |-> <<TagEnvProd>>] >>,
          << [ResourceARN |-> Ref(ApiGwArn(<<"/", "restapis", "/", "def456">>)), Tags |-> <<TagEnvDev>>] >> >>,
       \* an empty ARN, and the ARN of the REST-API collection itself
       << << [ResourceARN |-> Ref(<<>>), Tags |-> <<TagEnvProd>>],
             [ResourceARN |-> Ref(ApiGwArn(<<"/", "restapis", "/", "abc123">>)), Tags |-> <<TagEnvDev>>] >>,
          << [ResourceARN |-> Ref(ApiGwArn(<<"/", "restapis">>)), Tags |-> <<TagEnvProd>>] >> >> >>

\* Pages of DescribeAutoScalingGroups (AutoScalingGroups).
AsgProfiles ==
    << << << [AutoScalingGroupARN |-> Ref(AsgArn("uuid1", <<"my-asg">>)), Tags |-> <<TagEnvProd>>],
             [AutoScalingGroupARN |-> Ref(AsgArn("uuid2", <<"web", ":", "blue">>)), Tags |-> <<TagEnvDev>>] >>,
          << [AutoScalingGroupARN |-> Ref(AsgArn("uuid3", <<"batch">>)), Tags |-> <<TagEnvProd, TagTeam>>] >>,
          << >> >>,
       \* an ARN of six fields
       << << [AutoScalingGroupARN |-> Ref(AsgArn("uuid1", <<"my-asg">>)), Tags |-> <<TagEnvProd>>],
             [AutoScalingGroupARN |-> Ref(ArnPrefix("autoscaling") \o <<"autoScalingGroup">>),
              Tags |-> <<TagEnvProd>>] >> >>,
       \* an empty ARN on the second page
       << << [AutoScalingGroupARN |-> Ref(AsgArn("uuid1", <<"my-asg">>)), Tags |-> <<TagEnvProd>>] >>,
          << [AutoScalingGroupARN |-> Ref(<<>>), Tags |-> <<TagEnvProd>>] >> >>,
       \* a group without ARN
       << << [AutoScalingGroupARN |-> NIL, Tags |-> <<TagEnvProd>>] >> >> >>

\* Pages of DescribeTransitGatewayAttachments (TransitGatewayAttachments).
TgwaProfiles ==
    << << << [TransitGatewayId |-> Ref(<<"tgw-1">>), TransitGatewayAttachmentId |-> Ref(<<"tgw-attach-2">>),
              Tags |-> <<TagEnvProd>>] >>,
          << [TransitGatewayId |-> Ref(<<"tgw-1">>), TransitGatewayAttachmentId |-> Ref(<<"tgw-attach-3">>),
              Tags |-> <<>>],
             [TransitGatewayId |-> Ref(<<"tgw-2">>), TransitGatewayAttachmentId |-> Ref(<<"tgw-attach-4">>),
              Tags |-> <<TagTeam, TagEnvProd>>] >> >>,
       << << [TransitGatewayId |-> Ref(<<>>), TransitGatewayAttachmentId |-> Ref(<<>>),
              Tags |-> <<TagEnvProd, TagTeam>>] >> >>,
       << << [TransitGatewayId |-> Ref(<<"tgw-1">>), TransitGatewayAttachmentId |-> NIL,
              Tags |-> <<TagEnvProd>>] >> >> >>

\* Pages of GetRestApis (Items).
RestApiProfiles ==
    << << << [Id |-> Ref(<<"abc123">>), Name |-> Ref(<<"my-api">>)] >>,
          << [Id |-> Ref(<<"def456">>), Name |-> Ref(<<"other-api">>)] >> >>,
       \* two REST APIs listed under one id
       << << [Id |-> Ref(<<"abc123">>), Name |-> Ref(<<"my-api">>)],
             [Id |-> Ref(<<"abc123">>), Name |-> Ref(<<"renamed-api">>)] >>,
          << >> >> >>

MainProfiles(type) ==
    CASE type = TypeAsg -> AsgProfiles
      [] type = TypeTgwa -> TgwaProfiles
      [] type = TypeApiGateway -> ApiGatewayProfiles
      [] type = TypeUnknown -> << << << >> >> >>
      [] OTHER -> GenericProfiles

CyclePage(cycle, p) == cycle[((p - 1) % Len(cycle)) + 1]

\* The account's resources sit on the first pages of every PagePeriod pages of the
\* main listing; the pages between them are empty.
PeriodicPage(cycle, p) ==
    IF ((p - 1) % PagePeriod) + 1 <= Len(cycle) THEN cycle[((p - 1) % PagePeriod) + 1] ELSE <<>>

\* The p-th page the job's listing call delivers.
MainPage(type, prov, p) == PeriodicPage(MainProfiles(type)[prov.main], p)

\* The p-th page GetRestApis delivers.
RestPage(prov, p) == CyclePage(RestApiProfiles[prov.rest], p)

-----------------------------------------------------------------------------
(* Discovery: the page callbacks *)

\* Page cap of the three listing callbacks (return pageNum < 100).
PageCap == 100

\* const maxPages of getTaggedApiGateway.
maxPages == 10

PanicNil == "invalid memory address or nil pointer dereference"

PanicIndex == "index out of range"

\* resource.filterThroughTags(job.SearchTags): every required {Key, Value} is
\* carried by some tag of the resource.
filterThroughTags(r, filterTags) ==
    \A i \in 1..Len(filterTags) :
        \E j \in 1..Len(r.Tags) :
            /\ r.Tags[j].Key = filterTags[i].Key
            /\ r.Tags[j].Value = filterTags[i].Value

\* for _, t := range x.Tags { resource.Tags = append(resource.Tags, &tag{...}) }
CopyTags(ts) == [i \in 1..Len(ts) |-> [Key |-> ts[i].Key, Value |-> ts[i].Value]]

\* AppendFiltered without the tag filter.
AppendUnfiltered(acc, resource, jobv) == Append(acc, resource)

\* resources = append(resources, &resource) when the resource passes the filter
AppendFiltered(acc, resource, jobv) ==
    IF filterThroughTags(resource, jobv.SearchTags) THEN Append(acc, resource) ELSE acc

\* The tagsData built from one ResourceTagMapping.
GetResourcesRecord(m, jobv, reg) ==
    [ID |-> m.ResourceARN, Matcher |-> NIL, Tags |-> CopyTags(m.Tags),
     Service |-> jobv.Type, Region |-> reg]

\* The loop over page.ResourceTagMappingList.
RECURSIVE GetResourcesPageItems(_, _, _, _)
GetResourcesPageItems(list, jobv, reg, acc) ==
    IF list = <<>> THEN acc
    ELSE GetResourcesPageItems(Tail(list), jobv, reg,
            AppendFiltered(acc, GetResourcesRecord(Head(list), jobv, reg), jobv))

\* GetResourcesContinue with the comparison of getTaggedApiGateway.
GetResourcesContinueInclusive(n) == n <= PageCap

GetResourcesContinue(n) == n < PageCap

\* fmt.Sprintf("arn:%s:autoscaling:%s:%s:%s", parts[1], parts[3], parts[4], parts[7])
AsgResourceID(parts) ==
    <<"arn", ":">> \o parts[2] \o <<":", "autoscaling", ":">> \o parts[4]
        \o <<":">> \o parts[5] \o <<":">> \o parts[8]

AsgRecord(asg, jobv, reg) ==
    [ID |-> Ref(AsgResourceID(Split(asg.AutoScalingGroupARN.val, ":"))), Matcher |-> NIL,
     Tags |-> CopyTags(asg.Tags), Service |-> jobv.Type, Region |-> reg]

\* The run-time panic, if any, of building the record of one group.
AsgRecordPanic(asg) ==
    IF asg.AutoScalingGroupARN = NIL THEN PanicNil
    ELSE IF Len(Split(asg.AutoScalingGroupARN.val, ":")) < 8 THEN PanicIndex
    ELSE ""

\* The loop over page.AutoScalingGroups; st = [res, panic].
RECURSIVE AsgPageItems(_, _, _, _)
AsgPageItems(list, jobv, reg, st) ==
    IF list = <<>> \/ st.panic # "" THEN st
    ELSE IF AsgRecordPanic(Head(list)) # ""
         THEN [st EXCEPT !.panic = AsgRecordPanic(Head(list))]
    ELSE AsgPageItems(Tail(list), jobv, reg,
            [st EXCEPT !.res = AppendFiltered(st.res, AsgRecord(Head(list), jobv, reg), jobv)])

AsgContinue(n) == n < PageCap

\* fmt.Sprintf("%s/%s", *tgwa.TransitGatewayId, *tgwa.TransitGatewayAttachmentId)
TgwaResourceID(tgwa) ==
    tgwa.TransitGatewayId.val \o <<"/">> \o tgwa.TransitGatewayAttachmentId.val

TgwaRecord(tgwa, jobv, reg) ==
    [ID |-> Ref(TgwaResourceID(tgwa)), Matcher |-> NIL,
     Tags |-> CopyTags(tgwa.Tags), Service |-> jobv.Type, Region |-> reg]

TgwaRecordPanic(tgwa) ==
    IF tgwa.TransitGatewayId = NIL \/ tgwa.TransitGatewayAttachmentId = NIL
    THEN PanicNil ELSE ""

\* The loop over page.TransitGatewayAttachments; st = [res, panic].
RECURSIVE TgwaPageItems(_, _, _, _)
TgwaPageItems(list, jobv, reg, st) ==
    IF list = <<>> \/ st.panic # "" THEN st
    ELSE IF TgwaRecordPanic(Head(list)) # ""
         THEN [st EXCEPT !.panic = TgwaRecordPanic(Head(list))]
    ELSE TgwaPageItems(Tail(list), jobv, reg,
            [st EXCEPT !.res = AppendFiltered(st.res, TgwaRecord(Head(list), jobv, reg), jobv)])

TgwaContinue(n) == n < PageCap

\* return pageNum <= maxPages
RestApisContinue(n) == n <= maxPages

-----------------------------------------------------------------------------
(* Discovery: API-gateway enrichment *)

\* for _, apiGateway := range apiGateways.Items { if *apiGateway.Id == restApiId
\*     { r.Matcher = apiGateway.Name } }
RECURSIVE MatchRestApi(_, _, _)
MatchRestApi(items, restApiId, matcher) ==
    IF items = <<>> THEN matcher
    ELSE MatchRestApi(Tail(items), restApiId,
            IF Head(items).Id.val = restApiId THEN Head(items).Name ELSE matcher)

\* restApiId := strings.Split(*r.ID, "/")[2]
RestApiIdOf(id) == Split(id, "/")[3]

EnrichPanic(r) ==
    IF r.ID = NIL THEN PanicNil
    ELSE IF Contains(r.ID.val, RestApisNeedle) /\ Len(Split(r.ID.val, "/")) < 3 THEN PanicIndex
    ELSE ""

\* The loop over resources of the apigateway case; st = [res, panic].
RECURSIVE EnrichResources(_, _, _)
EnrichResources(rs, items, st) ==
    IF rs = <<>> \/ st.panic # "" THEN st
    ELSE IF EnrichPanic(Head(rs)) # "" THEN [st EXCEPT !.panic = EnrichPanic(Head(rs))]
    ELSE IF ~Contains(Head(rs).ID.val, RestApisNeedle) THEN EnrichResources(Tail(rs), items, st)
    ELSE LET matcher == MatchRestApi(items, RestApiIdOf(Head(rs).ID.val), Head(rs).Matcher)
         IN  IF matcher = NIL THEN EnrichResources(Tail(rs), items, st)
             ELSE EnrichResources(Tail(rs), items,
                     [st EXCEPT !.res = Append(st.res, [Head(rs) EXCEPT !.Matcher = matcher])])

-----------------------------------------------------------------------------
(* Metric Materializer: migrateTagsToPrometheus *)

EmptyMap == [x \in {} |-> <<>>]

\* m[k] = v on a Go map
Put(m, k, v) == [x \in DOMAIN m \cup {k} |-> IF x = k THEN v ELSE m[x]]

\* tagList[service]: the nil slice for a missing key
TagListGet(tl, svc) == IF svc \in DOMAIN tl THEN tl[svc] ELSE <<>>

\* The loop over d.Tags of the first pass.
RECURSIVE CollectKeys(_, _, _)
CollectKeys(tags, svc, tl) ==
    IF tags = <<>> THEN tl
    ELSE CollectKeys(Tail(tags), svc,
            IF ~stringInSlice(Head(tags).Key, TagListGet(tl, svc))
            THEN Put(tl, svc, Append(TagListGet(tl, svc), Head(tags).Key))
            ELSE tl)

\* The first pass: tagList, the tag keys of each service in first-seen order.
RECURSIVE CollectTagList(_, _)
CollectTagList(td, tl) ==
    IF td = <<>> THEN tl
    ELSE CollectTagList(Tail(td), CollectKeys(Head(td).Tags, Head(td).Service, tl))

\* for _, rTag := range d.Tags { if entry == rTag.Key { promLabels[labelKey] = rTag.Value } }
RECURSIVE LabelValue(_, _, _)
LabelValue(tags, entry, cur) ==
    IF tags = <<>> THEN cur
    ELSE LabelValue(Tail(tags), entry, IF entry = Head(tags).Key THEN Head(tags).Value ELSE cur)

LabelKey(entry) == <<"tag_">> \o promStringTag(entry)

\* FillLabels without the default promLabels[labelKey] = "".
RECURSIVE FillLabelsPresentOnly(_, _, _)
FillLabelsPresentOnly(entries, d, promLabels) ==
    IF entries = <<>> THEN promLabels
    ELSE FillLabelsPresentOnly(Tail(entries), d,
            IF \E j \in 1..Len(d.Tags) : d.Tags[j].Key = Head(entries)
            THEN Put(promLabels, LabelKey(Head(entries)), LabelValue(d.Tags, Head(entries), <<>>))
            ELSE promLabels)

\* The loop over tagList[*d.Service] of the second pass.
RECURSIVE FillLabels(_, _, _)
FillLabels(entries, d, promLabels) ==
    IF entries = <<>> THEN promLabels
    ELSE FillLabels(Tail(entries), d,
            Put(promLabels, LabelKey(Head(entries)), LabelValue(d.Tags, Head(entries), <<>>)))

NameKey == <<"name">>

\* promLabels["name"] = *d.ID
NameLabel(d) == d.ID.val

\* The PrometheusMetric of one record.
MetricOf(d, tagList) ==
    [name   |-> <<"aws_">> \o promString(d.Service) \o <<"_info">>,
     labels |-> FillLabels(TagListGet(tagList, d.Service), d, Put(EmptyMap, NameKey, NameLabel(d))),
     value  |-> 0]

migrateTagsToPrometheus(td) ==
    LET tagList == CollectTagList(td, EmptyMap)
    IN  [i \in 1..Len(td) |-> MetricOf(td[i], tagList)]

-----------------------------------------------------------------------------
(* The state machine *)

Jobs == [Type : JobTypes, SearchTags : SearchTagSets]

Providers(type) ==
    [main : 1..Len(MainProfiles(type)),
     rest : IF type = TypeApiGateway THEN 1..Len(RestApiProfiles) ELSE {1}]

Idle ==
    /\ inputparams = <<>>
    /\ pageNum = 0
    /\ lastPage = FALSE
    /\ cont = TRUE
    /\ resources = <<>>
    /\ resourcePages = NoErr
    /\ restPageNum = 0
    /\ restLast = FALSE
    /\ restCont = TRUE
    /\ apiItems = <<>>
    /\ errGet = NoErr
    /\ retErr = NoErr
    /\ firstErr = NoErr
    /\ callsAfterErr = FALSE
    /\ panicked = ""
    /\ output = <<>>

\* A caller about to run discover(job, region).
Init ==
    /\ job \in Jobs
    /\ region \in Regions
    /\ provider \in Providers(job.Type)
    /\ pc = "start"
    /\ tagData = <<>>
    /\ Idle

restVars == <<restPageNum, restLast, restCont, apiItems, errGet>>

retVars == <<tagData, retErr, output>>

envVars == <<job, region, provider>>

\* get up to the listing call: the dispatch on job.Type and the registry lookup.
Get ==
    /\ pc = "start"
    /\ IF job.Type = TypeAsg THEN pc' = "asgPages" /\ UNCHANGED inputparams
       ELSE IF job.Type = TypeTgwa THEN pc' = "tgwaPages" /\ UNCHANGED inputparams
       ELSE IF RegistryHas(job.Type)
            THEN pc' = "getPages" /\ inputparams' = RegistryFilters(job.Type)
            ELSE pc' = "fatal" /\ UNCHANGED inputparams
    /\ UNCHANGED <<envVars, pageNum, lastPage, cont, resources, resourcePages, restVars,
                   retVars, firstErr, callsAfterErr, panicked>>

\* GetResourcesPagesWithContext delivers the next page to the callback of get.
GetResourcesPage ==
    /\ pc = "getPages"
    /\ \E last \in BOOLEAN :
        /\ pageNum' = pageNum + 1
        /\ lastPage' = last
        /\ resources' = GetResourcesPageItems(MainPage(job.Type, provider, pageNum + 1),
                                              job, region, resources)
        /\ cont' = GetResourcesContinue(pageNum + 1)
        /\ pc' = IF cont' /\ ~last THEN "getPages" ELSE "getDone"
    /\ callsAfterErr' = (callsAfterErr \/ firstErr # NoErr)
    /\ UNCHANGED <<envVars, inputparams, resourcePages, restVars, retVars, firstErr, panicked>>

\* The request for the next page of GetResources fails.
GetResourcesPagesError ==
    /\ pc = "getPages"
    /\ pageNum < MaxFailPage
    /\ resourcePages' = ErrTagging
    /\ firstErr' = IF firstErr = NoErr THEN ErrTagging ELSE firstErr
    /\ callsAfterErr' = (callsAfterErr \/ firstErr # NoErr)
    /\ pc' = "getDone"
    /\ UNCHANGED <<envVars, inputparams, pageNum, lastPage, cont, resources, restVars,
                   retVars, panicked>>

\* get after the listing call, job.Type other than apigateway: return resources, resourcePages.
GetReturn ==
    /\ pc = "getDone"
    /\ job.Type # TypeApiGateway
    /\ tagData' = resources
    /\ retErr' = resourcePages
    /\ pc' = "returned"
    /\ UNCHANGED <<envVars, inputparams, pageNum, lastPage, cont, resources, resourcePages,
                   restVars, output, firstErr, callsAfterErr, panicked>>

\* get enters getTaggedApiGateway.
GetApiGatewayBegin ==
    /\ pc = "getDone"
    /\ job.Type = TypeApiGateway
    /\ restPageNum' = 0
    /\ apiItems' = <<>>
    /\ pc' = "restPages"
    /\ UNCHANGED <<envVars, inputparams, pageNum, lastPage, cont, resources, resourcePages,
                   restLast, restCont, errGet, retVars, firstErr, callsAfterErr, panicked>>

\* GetRestApisPagesWithContext delivers the next page to the callback of getTaggedApiGateway.
RestApisPage ==
    /\ pc = "restPages"
    /\ \E last \in BOOLEAN :
        /\ restPageNum' = restPageNum + 1
        /\ restLast' = last
        /\ apiItems' = apiItems \o RestPage(provider, restPageNum + 1)
        /\ restCont' = RestApisContinue(restPageNum + 1)
        /\ pc' = IF restCont' /\ ~last THEN "restPages" ELSE "restDone"
    /\ callsAfterErr' = (callsAfterErr \/ firstErr # NoErr)
    /\ UNCHANGED <<envVars, inputparams, pageNum, lastPage, cont, resources, resourcePages,
                   errGet, retVars, firstErr, panicked>>

\* The request for the next page of GetRestApis fails.
RestApisPagesError ==
    /\ pc = "restPages"
    /\ restPageNum < MaxFailPage
    /\ errGet' = ErrRestApis
    /\ firstErr' = IF firstErr = NoErr THEN ErrRestApis ELSE firstErr
    /\ callsAfterErr' = (callsAfterErr \/ firstErr # NoErr)
    /\ pc' = "restDone"
    /\ UNCHANGED <<envVars, inputparams, pageNum, lastPage, cont, resources, resourcePages,
                   restPageNum, restLast, restCont, apiItems, retVars, panicked>>

\* get after getTaggedApiGateway: the error return, or the enrichment loop and the return.
GetApiGatewayEnd ==
    /\ pc = "restDone"
    /\ IF errGet # NoErr
       THEN /\ tagData' = resources
            /\ retErr' = errGet
            /\ pc' = "returned"
            /\ UNCHANGED <<resources, panicked>>
       ELSE LET st == EnrichResources(resources, apiItems, [res |-> <<>>, panic |-> ""])
            IN  IF st.panic # ""
                THEN /\ panicked' = st.panic
                     /\ pc' = "panic"
                     /\ UNCHANGED <<resources, tagData, retErr>>
                ELSE /\ resources' = st.res
                     /\ tagData' = st.res
                     /\ retErr' = resourcePages
                     /\ pc' = "returned"
                     /\ UNCHANGED panicked
    /\ UNCHANGED <<envVars, inputparams, pageNum, lastPage, cont, resourcePages, restVars,
                   output, firstErr, callsAfterErr>>


\* DescribeAutoScalingGroupsPagesWithContext delivers the next page to the callback
\* of getTaggedAutoscalingGroups.
AsgPage ==
    /\ pc = "asgPages"
    /\ \E last \in BOOLEAN :
        LET st == AsgPageItems(MainPage(job.Type, provider, pageNum + 1), job, region,
                               [res |-> resources, panic |-> ""])
        IN  /\ pageNum' = pageNum + 1
            /\ lastPage' = last
            /\ resources' = st.res
            /\ IF st.panic # ""
               THEN /\ panicked' = st.panic
                    /\ pc' = "panic"
                    /\ UNCHANGED cont
               ELSE /\ cont' = AsgContinue(pageNum + 1)
                    /\ pc' = IF cont' /\ ~last THEN "asgPages" ELSE "asgDone"
                    /\ UNCHANGED panicked
    /\ callsAfterErr' = (callsAfterErr \/ firstErr # NoErr)
    /\ UNCHANGED <<envVars, inputparams, resourcePages, restVars, retVars, firstErr>>

\* The request for the next page of DescribeAutoScalingGroups fails.
AsgPagesError ==
    /\ pc = "asgPages"
    /\ pageNum < MaxFailPage
    /\ resourcePages' = ErrListing
    /\ firstErr' = IF firstErr = NoErr THEN ErrListing ELSE firstErr
    /\ callsAfterErr' = (callsAfterErr \/ firstErr # NoErr)
    /\ pc' = "asgDone"
    /\ UNCHANGED <<envVars, inputparams, pageNum, lastPage, cont, resources, restVars,
                   retVars, panicked>>

\* return resources, iface.asgClient.DescribeAutoScalingGroupsPagesWithContext(...):
\* the compiler runs the call before it loads the named result, so the caller
\* receives what the callback accumulated.
AsgReturn ==
    /\ pc = "asgDone"
    /\ tagData' = resources
    /\ retErr' = resourcePages
    /\ pc' = "returned"
    /\ UNCHANGED <<envVars, inputparams, pageNum, lastPage, cont, resources, resourcePages,
                   restVars, output, firstErr, callsAfterErr, panicked>>

\* DescribeTransitGatewayAttachmentsPagesWithContext delivers the next page to the
\* callback of getTaggedTransitGatewayAttachments.
TgwaPage ==
    /\ pc = "tgwaPages"
    /\ \E last \in BOOLEAN :
        LET st == TgwaPageItems(MainPage(job.Type, provider, pageNum + 1), job, region,
                                [res |-> resources, panic |-> ""])
        IN  /\ pageNum' = pageNum + 1
            /\ lastPage' = last
            /\ resources' = st.res
            /\ IF st.panic # ""
               THEN /\ panicked' = st.panic
                    /\ pc' = "panic"
                    /\ UNCHANGED cont
               ELSE /\ cont' = TgwaContinue(pageNum + 1)
                    /\ pc' = IF cont' /\ ~last THEN "tgwaPages" ELSE "tgwaDone"
                    /\ UNCHANGED panicked
    /\ callsAfterErr' = (callsAfterErr \/ firstErr # NoErr)
    /\ UNCHANGED <<envVars, inputparams, resourcePages, restVars, retVars, firstErr>>

\* The request for the next page of DescribeTransitGatewayAttachments fails.
TgwaPagesError ==
    /\ pc = "tgwaPages"
    /\ pageNum < MaxFailPage
    /\ resourcePages' = ErrListing
    /\ firstErr' = IF firstErr = NoErr THEN ErrListing ELSE firstErr
    /\ callsAfterErr' = (callsAfterErr \/ firstErr # NoErr)
    /\ pc' = "tgwaDone"
    /\ UNCHANGED <<envVars, inputparams, pageNum, lastPage, cont, resources, restVars,
                   retVars, panicked>>

\* return resources, iface.ec2Client.DescribeTransitGatewayAttachmentsPagesWithContext(...)
TgwaReturn ==
    /\ pc = "tgwaDone"
    /\ tagData' = resources
    /\ retErr' = resourcePages
    /\ pc' = "returned"
    /\ UNCHANGED <<envVars, inputparams, pageNum, lastPage, cont, resources, resourcePages,
                   restVars, output, firstErr, callsAfterErr, panicked>>

\* The caller hands the records of a job that returned no error to
\* migrateTagsToPrometheus; *d.ID panics on a record without ID.
Migrate ==
    /\ pc = "returned"
    /\ retErr = NoErr
    /\ IF \E i \in 1..Len(tagData) : tagData[i].ID = NIL
       THEN /\ panicked' = PanicNil
            /\ pc' = "panic"
            /\ UNCHANGED output
       ELSE /\ output' = migrateTagsToPrometheus(tagData)
            /\ pc' = "migrated"
            /\ UNCHANGED panicked
    /\ UNCHANGED <<envVars, inputparams, pageNum, lastPage, cont, resources, resourcePages,
                   restVars, tagData, retErr, firstErr, callsAfterErr>>

Next ==
    \/ Get
    \/ GetResourcesPage
    \/ GetResourcesPagesError
    \/ GetReturn
    \/ GetApiGatewayBegin
    \/ RestApisPage
    \/ RestApisPagesError
    \/ GetApiGatewayEnd
    \/ AsgPage
    \/ AsgPagesError
    \/ AsgReturn
    \/ TgwaPage
    \/ TgwaPagesError
    \/ TgwaReturn
    \/ Migrate

Spec == Init /\ [][Next]_vars

-----------------------------------------------------------------------------
(* The materializer on batches gathered from several jobs *)

BatchTagLists ==
    { <<>>, <<TagEnvProd>>, <<TagDash>>, <<TagUnder>>, <<TagUnder, TagEnvProd>>,
      <<TagEnvProd, TagEnvDev>>, <<TagTeam, TagEnvProd>> }

\* Records as the discovery paths return them: generic records without Matcher
\* (and possibly without ID), API-gateway records with the REST API's name.
BatchRecords ==
    { [ID |-> Ref(Ec2Arn("i-1")), Matcher |-> NIL, Tags |-> t, Service |-> TypeEc2,
       Region |-> <<"us-east-1">>] : t \in BatchTagLists }
    \cup
    { [ID |-> NIL, Matcher |-> NIL, Tags |-> <<TagEnvProd>>, Service |-> TypeEc2,
       Region |-> <<"us-east-1">>] }
    \cup
    { [ID |-> Ref(ApiGwArn(<<"/", "restapis", "/", "abc123">>)), Matcher |-> Ref(<<"my-api">>),
       Tags |-> t, Service |-> TypeApiGateway, Region |-> <<"us-east-1">>] :
        t \in BatchTagLists }

Batches == UNION { [1..n -> BatchRecords] : n \in 0..MaxBatch }

InitMat ==
    /\ job = [Type |-> TypeEc2, SearchTags |-> <<>>]
    /\ region = <<"us-east-1">>
    /\ provider = [main |-> 1, rest |-> 1]
    /\ pc = "returned"
    /\ tagData \in Batches
    /\ Idle

NextMat == Migrate

SpecMat == InitMat /\ [][NextMat]_vars

-----------------------------------------------------------------------------
(* Properties *)

\* The positions <<page, index>> of the items on the first n pages of the job's listing.
FetchedPositions(n) ==
    UNION { { <<p, k>> : k \in 1..Len(MainPage(job.Type, provider, p)) } : p \in 1..n }

ItemAt(q) == MainPage(job.Type, provider, q[1])[q[2]]

\* Every required {Key, Value} matcher is carried by the tag list.
Satisfies(tags, required) ==
    \A m \in { required[i] : i \in DOMAIN required } :
        \E t \in { tags[j] : j \in DOMAIN tags } : t.Key = m.Key /\ t.Value = m.Value

PassingPositions(n) ==
    { q \in FetchedPositions(n) : Satisfies(ItemAt(q).Tags, job.SearchTags) }

\* Page order, then within-page order.
Before(x, y) == x[1] < y[1] \/ (x[1] = y[1] /\ x[2] < y[2])

RankIn(S, q) == Cardinality({ x \in S : Before(x, q) }) + 1

ListingEnded == pc \in {"getDone", "asgDone", "tgwaDone", "restPages", "restDone", "returned", "migrated"}

\* C1: on the generic, autoscaling-group and transit-gateway-attachment paths the
\* page callback runs for at most the first 100 pages: it answers "continue" after
\* pages 1..99 and "stop" after page 100, a listing that ends with more pages on
\* offer has run the callback exactly 100 times, and nothing beyond the items of
\* pages 1..100 is ever accumulated.
C1_PageCap ==
    /\ pageNum <= PageCap
    /\ (pageNum > 0 /\ pc # "panic") => (cont = (pageNum < PageCap))
    /\ (ListingEnded /\ resourcePages = NoErr /\ ~lastPage) => pageNum = PageCap
    /\ Len(resources) <= Cardinality(FetchedPositions(IF pageNum < PageCap THEN pageNum ELSE PageCap))
    /\ Len(tagData) <= Cardinality(FetchedPositions(PageCap))

\* A job returned after the callback stopped a listing that had more than 100 pages.
C1_Witness ==
    /\ pc = "returned"
    /\ retErr = NoErr
    /\ pageNum = PageCap
    /\ ~lastPage
    /\ ~cont
    /\ Len(tagData) > 0


\* The items of the first n pages of GetRestApis, in order.
RECURSIVE RestItemsOfPages(_)
RestItemsOfPages(n) ==
    IF n = 0 THEN <<>> ELSE RestItemsOfPages(n - 1) \o RestPage(provider, n)

\* C2: getTaggedApiGateway accumulates the items of at most the first 10 pages of
\* the REST-API listing: after a run without error the accumulated list is the
\* concatenation of pages 1..10 (of all delivered pages when fewer were delivered).
C2_RestApisFirstTenPages ==
    (pc = "restDone" /\ errGet = NoErr)
        => /\ restPageNum <= maxPages
           /\ apiItems = RestItemsOfPages(IF restPageNum < maxPages THEN restPageNum ELSE maxPages)

\* The display identity of a record: Matcher when set, ID otherwise.
EffectiveIdentity(d) == IF d.Matcher # NIL THEN d.Matcher.val ELSE d.ID.val

\* C3: the name label of every emitted metric is the record's effective identity,
\* the Matcher when it is set and the ID otherwise.
C3_NameIsEffectiveIdentity ==
    pc = "migrated"
        => \A i \in 1..Len(tagData) : output[i].labels[NameKey] = EffectiveIdentity(tagData[i])

\* The tag keys carried by the records of service svc in the batch.
ServiceKeys(svc) ==
    UNION { { tagData[j].Tags[t].Key : t \in 1..Len(tagData[j].Tags) } :
              j \in { x \in 1..Len(tagData) : tagData[x].Service = svc } }

\* C4: every metric emitted for a record of service S has the label keys name and
\* tag_<normalized k> for exactly the tag keys k carried by the records of S in the
\* batch, so all metrics of S share one label-key set and no other service adds to it.
C4_LabelKeysUniform ==
    pc = "migrated"
        => /\ Len(output) = Len(tagData)
           /\ \A i \in 1..Len(tagData) :
                DOMAIN output[i].labels =
                    {NameKey} \cup { <<"tag_">> \o Normalize(k) : k \in ServiceKeys(tagData[i].Service) }

\* Three records, two of one service with different tag keys and one of another
\* service carrying a key the first service lacks, were materialized.
C4_Witness ==
    /\ pc = "migrated"
    /\ \E i, j, k \in 1..Len(tagData) :
        /\ i # j
        /\ tagData[i].Service = tagData[j].Service
        /\ tagData[k].Service # tagData[i].Service
        /\ \E t \in 1..Len(tagData[j].Tags) :
              \A u \in 1..Len(tagData[i].Tags) : tagData[i].Tags[u].Key # tagData[j].Tags[t].Key
        /\ \E t \in 1..Len(tagData[k].Tags) :
              tagData[k].Tags[t].Key \notin ServiceKeys(tagData[i].Service)
        /\ Cardinality(DOMAIN output[i].labels) > 1

\* C5: for every record R of service S and every tag key k of S, the label
\* tag_<normalized k> of R's metric is a value R carries for k, and the empty
\* string when R carries no tag with key k.
C5_LabelValues ==
    pc = "migrated"
        => \A i \in 1..Len(tagData) : \A k \in ServiceKeys(tagData[i].Service) :
              LET v == output[i].labels[<<"tag_">> \o Normalize(k)]
                  carried == { t \in 1..Len(tagData[i].Tags) : tagData[i].Tags[t].Key = k }
              IN  IF carried = {} THEN v = <<>>
                  ELSE \E t \in carried : tagData[i].Tags[t].Value = v


Segments(id) == Split(id, "/")

\* The REST-API id embedded in id is the Id of a listed REST API.
ListedRestApi(id) ==
    /\ Len(Segments(id)) >= 3
    /\ \E k \in 1..Len(apiItems) : apiItems[k].Id.val = Segments(id)[3]

\* The positions of the tag-filtered items whose ID contains /restapis and embeds
\* a listed REST-API id.
EnrichedPositions ==
    { q \in PassingPositions(pageNum) :
        /\ ItemAt(q).ResourceARN # NIL
        /\ Contains(ItemAt(q).ResourceARN.val, RestApisNeedle)
        /\ ListedRestApi(ItemAt(q).ResourceARN.val) }

\* What an apigateway job returns when the REST-API listing succeeded.
ApiGatewayResult ==
    (pc \in {"returned", "migrated"} /\ errGet = NoErr)
        => /\ Len(tagData) = Cardinality(EnrichedPositions)
           /\ \A q \in EnrichedPositions :
                LET r == tagData[RankIn(EnrichedPositions, q)]
                IN  /\ r.ID = ItemAt(q).ResourceARN
                    /\ r.Tags = ItemAt(q).Tags
                    /\ r.Matcher # NIL
                    /\ \E k \in 1..Len(apiItems) :
                          /\ apiItems[k].Id.val = Segments(r.ID.val)[3]
                          /\ apiItems[k].Name = r.Matcher

\* C6: an apigateway job whose REST-API listing succeeds returns exactly the
\* tag-filtered records whose ID contains /restapis and whose third /-segment is
\* the Id of a listed REST API, in order, each with Matcher the Name of such an
\* API; this for every ID containing /restapis, whatever its number of segments,
\* so the enrichment never aborts.
C6_ApiGatewayEnrichment ==
    job.Type = TypeApiGateway => (pc # "panic" /\ ApiGatewayResult)

\* C7: once a provider call of the job returned an error, the job issues no
\* further provider request, and the job returns that error.
C7_ErrorEndsJob ==
    /\ ~callsAfterErr
    /\ (pc \in {"returned", "migrated"} /\ firstErr # NoErr) => retErr = firstErr

\* C8: every record a discovery path returns has an ID that is neither nil nor
\* the empty string.
C8_IdNeverEmpty ==
    \A i \in 1..Len(tagData) : tagData[i].ID # NIL /\ tagData[i].ID.val # <<>>

\* C9: a job on the generic (non-apigateway), autoscaling-group or
\* transit-gateway-attachment path that completes without error returns, in page
\* order and then within-page order, exactly the fetched items whose tags satisfy
\* every matcher of job.SearchTags, with the item's tags verbatim,
\* Service = job.Type and Region = region.
C9_FilteredInOrder ==
    (pc = "returned" /\ retErr = NoErr /\ job.Type # TypeApiGateway)
        => /\ Len(tagData) = Cardinality(PassingPositions(pageNum))
           /\ \A q \in PassingPositions(pageNum) :
                LET r == tagData[RankIn(PassingPositions(pageNum), q)]
                IN  /\ r.Tags = ItemAt(q).Tags
                    /\ r.Service = job.Type
                    /\ r.Region = region

\* A job with required tags returned several records of several pages and left
\* out a fetched item that fails the filter.
C9_Witness ==
    /\ pc = "returned"
    /\ retErr = NoErr
    /\ job.Type # TypeApiGateway
    /\ job.SearchTags # <<>>
    /\ pageNum >= 2
    /\ Len(tagData) >= 2
    /\ Len(tagData) < Cardinality(FetchedPositions(pageNum))
    /\ \E i, j \in 1..Len(tagData) : tagData[i].Tags # tagData[j].Tags

\* The IDs an autoscaling-group job returns.
AsgResult ==
    (pc = "returned" /\ retErr = NoErr)
        => \A q \in PassingPositions(pageNum) :
              LET f == Split(ItemAt(q).AutoScalingGroupARN.val, ":")
              IN  tagData[RankIn(PassingPositions(pageNum), q)].ID =
                      Ref(<<"arn", ":">> \o f[2] \o <<":", "autoscaling", ":">> \o f[4]
                              \o <<":">> \o f[5] \o <<":">> \o f[8])

\* C10: the ID of every autoscaling group of a fetched page is
\* arn:<f1>:autoscaling:<f3>:<f4>:<f7> of the fields of its native ARN, and
\* building it never aborts the discovery call.
C10_AsgReconstruction ==
    job.Type = TypeAsg => (panicked # PanicIndex /\ AsgResult)

\* The parts of the claims above that the panics do not touch.
ApiGatewayResultWhenReturned == job.Type = TypeApiGateway => ApiGatewayResult

AsgResultWhenReturned == job.Type = TypeAsg => AsgResult

=============================================================================
